---------------------------- MODULE Spec2Model ----------------------------
(***************************************************************************)
(* Model of cartesian_circle.py: the waypoint generator _build_waypoints   *)
(* (a pure function, modelled as the operator build_waypoints) and the     *)
(* entry point plan_cartesian_circle (modelled as a sequential process     *)
(* whose program counter pc walks lines 79..94, with the MoveGroup         *)
(* collaborator as the environment: each of its calls either returns a     *)
(* value drawn from a small set or raises).                                *)
(*                                                                         *)
(* Python floats are binary floating point with round-to-nearest-even.     *)
(* The model keeps that arithmetic but narrows the format: Precision       *)
(* significant bits (binary64 has 53) on a grid of 2^-FracBits, so that    *)
(* every intermediate fits TLC's 32-bit integers.  A float is represented  *)
(* by the integer  value * 2^FracBits.                                     *)
(***************************************************************************)
EXTENDS Integers, Sequences, FiniteSets, TLC

VARIABLES
    args,        \* the keyword arguments of the call (lines 52-60)
    pc,          \* position inside plan_cartesian_circle
    calls,       \* the collaborator calls made so far, in order, with arguments
    start_pose,  \* local start_pose  (line 81)
    waypoints,   \* local waypoints   (line 82)
    traj,        \* local traj        (line 84)
    fraction,    \* local fraction    (line 84)
    result,      \* what the caller received from a normal return (line 94)
    error        \* the exception that reached the caller, if any

vars == <<args, pc, calls, start_pose, waypoints, traj, fraction, result, error>>

None == << >>
Some(v) == <<v>>
The(o) == o[1]

----------------------------------------------------------------------------
(* Bounds of the model                                                     *)

MaxPoints == 4       \* n_points ranges over -MaxNegPoints .. MaxPoints
MaxNegPoints == 2

----------------------------------------------------------------------------
(* Floating point                                                          *)

Precision == 8
FracBits == 14
One == 2 ^ FracBits

Abs(x) == IF x < 0 THEN -x ELSE x
Sgn(x) == IF x < 0 THEN -1 ELSE 1

RECURSIVE UlpOf(_, _, _)
\* the spacing of the format around n/den: the least power of two u with
\* n/den < 2^Precision * u
UlpOf(n, den, u) ==
    IF n \div den < (2 ^ Precision) * u THEN u ELSE UlpOf(n, den, 2 * u)

\* the float nearest the rational num/den (den > 0), ties to even
FRound(num, den) ==
    LET n  == Abs(num)
        u  == UlpOf(n, den, 1)
        q  == n \div (den * u)
        r  == n % (den * u)
        up == (2 * r > den * u) \/ (2 * r = den * u /\ q % 2 = 1)
    IN  Sgn(num) * (IF up THEN q + 1 ELSE q) * u

FAdd(x, y) == FRound(x + y, 1)          \* float + float
FSub(x, y) == FRound(x - y, 1)          \* float - float
FMul(x, y) == FRound(x * y, One)        \* float * float
FMulInt(x, i) == FRound(x * i, 1)       \* float * int (the int converts exactly)
FDivInt(x, n) == FRound(Sgn(n) * x, Abs(n))  \* float / int, n # 0
Float(num, den) == FRound(num * One, den)   \* the float literal num/den

\* math.pi: the float nearest pi (355/113 agrees with pi to 7 digits)
Pi == Float(355, 113)
Two == Float(2, 1)

\* math.cos and math.sin at the arguments 2.0*pi*i/n (n <= MaxPoints + 2)
\* can take in this format: <<theta, nearest float to cos(theta), nearest
\* float to sin(theta)>>.  As in binary64, 2.0*math.pi is not 2*pi, so the
\* sine of the last angle is a small non-zero number, and cos(pi/2) is not 0.
TrigTable ==
    { <<     0,  16384,      0>>, << 14720,  10176,  12800>>,
      << 17152,   8192,  14208>>, << 20608,   5056,  15616>>,
      << 25728,      8,  16384>>, << 29440,  -3680,  15936>>,
      << 34304,  -8192,  14208>>, << 41216, -13248,   9600>>,
      << 44288, -14848,   6944>>, << 51456, -16384,     16>>,
      << 58880, -14720,  -7168>>, << 61952, -13120,  -9792>>,
      << 68608,  -8192, -14208>>, << 73216,  -3952, -15872>>,
      << 77312,    104, -16384>>, << 82432,   5152, -15552>>,
      << 85504,   7936, -14336>>, << 88576,  10496, -12608>>,
      <<102912,  16384,    -32>> }

cos(theta) == (CHOOSE e \in TrigTable : e[1] = theta)[2]
sin(theta) == (CHOOSE e \in TrigTable : e[1] = theta)[3]


----------------------------------------------------------------------------
(* _build_waypoints (lines 19-48)                                          *)

\* A Pose: position (x, y, z) and an orientation, which the code only copies.
Pose(x, y, z, q) == [position |-> [x |-> x, y |-> y, z |-> z], orientation |-> q]

\* A plane argument is a Python str: here the sequence of its characters.
axis == [c \in {"x", "y", "z"} |-> CASE c = "x" -> 0 [] c = "y" -> 1 [] c = "z" -> 2]

NoError == "NoError"
Raise(kind) == [raised |-> kind, waypoints |-> << >>]
Return(wps) == [raised |-> NoError, waypoints |-> wps]

\* a faulty variant of centre: the centre one radius ahead of start_pose
centre_shift_forward(start, radius, a) ==
    LET c == <<start.position.x, start.position.y, start.position.z>>
    IN  [k \in 0..2 |-> IF k = axis[a] THEN FAdd(c[k + 1], radius) ELSE c[k + 1]]

\* lines 28-32: the position of start_pose with radius subtracted on axis a
centre(start, radius, a) ==
    LET c == <<start.position.x, start.position.y, start.position.z>>
    IN  [k \in 0..2 |-> IF k = axis[a] THEN FSub(c[k + 1], radius) ELSE c[k + 1]]

\* a faulty variant of range_n_points_plus_1: the closing point is left out
range_without_closing_point(n_points) == 0 .. (n_points - 1)

\* a faulty variant of range_n_points_plus_1: the body runs at least once
range_at_least_once(n_points) == 0 .. (IF n_points < 0 THEN 0 ELSE n_points)

\* line 35: range(n_points + 1), empty when n_points < 0

range_n_points_plus_1(n_points) == 0 .. n_points

\* line 36: theta = 2.0 * math.pi * i / n_points, evaluated left to right;
\* Python raises ZeroDivisionError when the divisor is 0
divides_by_zero(n_points) == n_points = 0

theta_of(i, n_points) == FDivInt(FMulInt(FMul(Two, Pi), i), n_points)

\* a faulty variant of delta_of: each component lands one axis further
delta_on_next_axis(radius, theta, a, b) ==
    LET d0 == [k \in 0..2 |-> 0]
        d1 == [d0 EXCEPT ![(axis[a] + 1) % 3] = FMul(radius, cos(theta))]
    IN  [d1 EXCEPT ![(axis[b] + 1) % 3] = FMul(radius, sin(theta))]

\* lines 39-41: delta, written on axis a and then on axis b
delta_of(radius, theta, a, b) ==
    LET d0 == [k \in 0..2 |-> 0]
        d1 == [d0 EXCEPT ![axis[a]] = FMul(radius, cos(theta))]
    IN  [d1 EXCEPT ![axis[b]] = FMul(radius, sin(theta))]

\* lines 38, 43-45: a deep copy of start_pose with the position overwritten
waypoint(start, c, delta) ==
    [start EXCEPT !.position = [x |-> FAdd(c[0], delta[0]),
                                     y |-> FAdd(c[1], delta[1]),
                                     z |-> FAdd(c[2], delta[2])]]

RECURSIVE loop(_, _, _, _, _, _, _)
\* lines 35-46: one iteration per i, in order; an exception ends the loop
loop(i, acc, start, radius, n_points, plane, c) ==
    IF i \notin range_n_points_plus_1(n_points) THEN Return(acc)
    ELSE IF divides_by_zero(n_points) THEN Raise("ZeroDivisionError")   \* line 36
    ELSE IF plane[2] \notin DOMAIN axis THEN Raise("KeyError")          \* line 41
    ELSE loop(i + 1,
              Append(acc, waypoint(start, c,
                                   delta_of(radius, theta_of(i, n_points),
                                            plane[1], plane[2]))),
              start, radius, n_points, plane, c)

build_waypoints(start, radius, n_points, plane) ==
    IF Len(plane) < 2 THEN Raise("IndexError")                          \* line 25
    ELSE IF plane[1] \notin DOMAIN axis THEN Raise("KeyError")          \* line 31
    ELSE loop(0, << >>, start, radius, n_points, plane,
              centre(start, radius, plane[1]))

----------------------------------------------------------------------------
(* The inputs the model draws from                                         *)

Radii == {Float(1, 10), Float(1, 4)}

Planes == { <<"x", "y">>, <<"y", "z">>, <<"x", "z">>,       \* "xy", "yz", "xz"
            <<"y", "x">>, <<"x", "x">>, <<"x", "y", "z">>,  \* "yx", "xx", "xyz"
            <<"x">>, <<"x", "a">>, <<"a", "b">> }           \* "x", "xa", "ab"

EnumeratedPlanes == { <<"x", "y">>, <<"y", "z">>, <<"x", "z">> }

\* (velocity_scale, eef_step, jump_threshold): the defaults of lines 56-58
\* and one other setting
Tunings == { [velocity_scale |-> Float(1, 5), eef_step |-> Float(5, 1000),
              jump_threshold |-> 0],
             [velocity_scale |-> Float(1, 1), eef_step |-> Float(1, 100),
              jump_threshold |-> Float(1, 1)] }

Thresholds == {Float(95, 100), Float(1, 2)}

\* what the collaborator may answer
Poses == { Pose(Float(1, 1), 0, 0, "q_identity"),
           Pose(Float(3, 10), 0, Float(7, 10), "q_tilted"),
           Pose(-Float(45, 100), Float(1, 1), Float(3, 10), "q_identity") }

Trajectories == {"traj_a", "traj_b"}
Fractions == {Float(1, 2), Float(95, 100), Float(97, 100)}
CollaboratorErrors == {"MoveItCommanderException", "RuntimeError"}

----------------------------------------------------------------------------
(* plan_cartesian_circle (lines 51-94)                                     *)

Init ==
    /\ args \in { [radius |-> r, n_points |-> n, plane |-> p,
                   eef_step |-> t.eef_step, jump_threshold |-> t.jump_threshold,
                   velocity_scale |-> t.velocity_scale, execute |-> x,
                   completeness_threshold |-> c] :
                  r \in Radii, n \in (-MaxNegPoints) .. MaxPoints, p \in Planes,
                  t \in Tunings, x \in BOOLEAN, c \in Thresholds }
    /\ pc = "set_velocity"
    /\ calls = << >>
    /\ start_pose = None
    /\ waypoints = None
    /\ traj = None
    /\ fraction = None
    /\ result = None
    /\ error = None

\* A collaborator call that returns value: control goes on to the next
\* statement.  The log keeps the call, its arguments and its outcome.
Returns(call, value, nextpc) ==
    /\ calls' = Append(calls, [call |-> call, raised |-> None, value |-> Some(value)])
    /\ pc' = nextpc
    /\ error' = error

\* a faulty variant of Raises: the failed call is tried once more
RaisesAfterRetry(call, e) ==
    /\ calls' = Append(Append(calls, [call |-> call, raised |-> Some(e), value |-> None]),
                       [call |-> call, raised |-> Some(e), value |-> None])
    /\ pc' = "raised"
    /\ error' = Some([kind |-> e, from |-> call.op])

\* A collaborator call that raises: there is no try/except anywhere, so the
\* exception leaves plan_cartesian_circle at once.
Raises(call, e) ==
    /\ calls' = Append(calls, [call |-> call, raised |-> Some(e), value |-> None])
    /\ pc' = "raised"
    /\ error' = Some([kind |-> e, from |-> call.op])

set_velocity_call == [op |-> "set_max_velocity_scaling_factor",
                      factor |-> args.velocity_scale]
get_pose_call == [op |-> "get_current_pose"]
compute_call == [op |-> "compute_cartesian_path", waypoints |-> The(waypoints),
                 eef_step |-> args.eef_step,
                 jump_threshold |-> args.jump_threshold,
                 avoid_collisions |-> TRUE]
execute_call == [op |-> "execute", trajectory |-> The(traj), wait |-> TRUE]

\* a faulty variant of SetVelocity: the scaling factor is never applied
SetVelocityForgotten ==
    /\ pc = "set_velocity"
    /\ pc' = "get_pose"
    /\ UNCHANGED <<args, calls, start_pose, waypoints, traj, fraction, result, error>>

\* line 79
SetVelocity ==
    /\ pc = "set_velocity"
    /\ \/ Returns(set_velocity_call, "None", "get_pose")
       \/ \E e \in CollaboratorErrors : Raises(set_velocity_call, e)
    /\ UNCHANGED <<args, start_pose, waypoints, traj, fraction, result>>

\* line 81
GetCurrentPose ==
    /\ pc = "get_pose"
    /\ \/ \E p \in Poses : /\ Returns(get_pose_call, p, "build")
                           /\ start_pose' = Some(p)
       \/ \E e \in CollaboratorErrors : /\ Raises(get_pose_call, e)
                                        /\ start_pose' = start_pose
    /\ UNCHANGED <<args, waypoints, traj, fraction, result>>

\* line 82
BuildWaypoints ==
    /\ pc = "build"
    /\ LET r == build_waypoints(The(start_pose), args.radius, args.n_points, args.plane)
       IN  IF r.raised = NoError
           THEN /\ waypoints' = Some(r.waypoints)
                /\ pc' = "compute"
                /\ error' = error
           ELSE /\ waypoints' = waypoints
                /\ pc' = "raised"
                /\ error' = Some([kind |-> r.raised, from |-> "_build_waypoints"])
    /\ UNCHANGED <<args, calls, start_pose, traj, fraction, result>>

\* lines 84-89
ComputeCartesianPath ==
    /\ pc = "compute"
    /\ \/ \E t \in Trajectories, f \in Fractions :
             /\ Returns(compute_call, <<t, f>>, "gate")
             /\ traj' = Some(t)
             /\ fraction' = Some(f)
       \/ \E e \in CollaboratorErrors :
             /\ Raises(compute_call, e)
             /\ UNCHANGED <<traj, fraction>>
    /\ UNCHANGED <<args, start_pose, waypoints, result>>

\* a faulty variant of gate: a fraction equal to the threshold is rejected
gate_strict(execute, f, completeness_threshold) ==
    execute /\ f > completeness_threshold

\* line 91: execute and fraction >= completeness_threshold
gate(execute, f, completeness_threshold) ==
    execute /\ f >= completeness_threshold

Gate ==
    /\ pc = "gate"
    /\ pc' = IF gate(args.execute, The(fraction), args.completeness_threshold)
             THEN "execute" ELSE "return"
    /\ UNCHANGED <<args, calls, start_pose, waypoints, traj, fraction, result, error>>

\* line 92
Execute ==
    /\ pc = "execute"
    /\ \/ Returns(execute_call, "None", "return")
       \/ \E e \in CollaboratorErrors : Raises(execute_call, e)
    /\ UNCHANGED <<args, start_pose, waypoints, traj, fraction, result>>

\* a faulty variant of return_value: a fraction below the threshold is
\* reported as 0
return_value_clamped(t, f) ==
    <<t, IF f < args.completeness_threshold THEN 0 ELSE f>>

\* line 94: return traj, fraction
return_value(t, f) == <<t, f>>

ReturnToCaller ==
    /\ pc = "return"
    /\ result' = Some(return_value(The(traj), The(fraction)))
    /\ pc' = "returned"
    /\ UNCHANGED <<args, calls, start_pose, waypoints, traj, fraction, error>>

Next ==
    \/ SetVelocity
    \/ GetCurrentPose
    \/ BuildWaypoints
    \/ ComputeCartesianPath
    \/ Gate
    \/ Execute
    \/ ReturnToCaller

Spec == Init /\ [][Next]_vars

----------------------------------------------------------------------------
(* Vocabulary of the properties                                            *)

Ops(log) == [i \in 1 .. Len(log) |-> log[i].call.op]
Count(op) == Cardinality({i \in 1 .. Len(calls) : calls[i].call.op = op})
CallsOf(op) == {calls[i].call : i \in {j \in 1 .. Len(calls) : calls[j].call.op = op}}
IsPrefix(s, t) == Len(s) <= Len(t) /\ \A i \in 1 .. Len(s) : s[i] = t[i]

CollaboratorOps == {"set_max_velocity_scaling_factor", "get_current_pose",
                    "compute_cartesian_path", "execute"}
CallOrder == <<"set_max_velocity_scaling_factor", "get_current_pose",
               "compute_cartesian_path", "execute">>

Finished == pc \in {"returned", "raised"}
\* _build_waypoints has been called and has returned or raised
GeneratorRan == start_pose # None /\ pc # "build"
GeneratorRaised == error # None /\ The(error).from = "_build_waypoints"
\* compute_cartesian_path has returned a (trajectory, fraction) pair
ComputeReturned == fraction # None
MeetsThreshold ==
    args.execute /\ The(fraction) >= args.completeness_threshold

----------------------------------------------------------------------------
(* C1: execute is invoked exactly once, with the trajectory that           *)
(* compute_cartesian_path returned and wait=True, when the execute flag is *)
(* true and fraction >= completeness_threshold; in every other case it is  *)
(* invoked zero times.                                                     *)
C1_ExecuteGatedExactlyOnce ==
    /\ Count("execute") <= 1
    /\ Count("execute") = 1 =>
          /\ ComputeReturned /\ MeetsThreshold
          /\ CallsOf("execute") =
                {[op |-> "execute", trajectory |-> The(calls[3].value)[1],
                  wait |-> TRUE]}
    /\ (Finished /\ ComputeReturned /\ MeetsThreshold) => Count("execute") = 1

\* execution happened with the fraction exactly at the threshold
C1_Witness ==
    /\ pc = "returned"
    /\ Count("execute") = 1
    /\ The(fraction) = args.completeness_threshold

(* C7: once compute_cartesian_path has returned, plan_cartesian_circle     *)
(* returns exactly the (trajectory, fraction) pair it returned, whether    *)
(* execution happened or was suppressed; the only error that can follow is *)
(* one raised by execute, so a low fraction never produces an error.       *)
C7_ReturnsWhatComputeReturned ==
    /\ pc = "returned" => result = Some(The(calls[3].value))
    /\ result # None => pc = "returned"
    /\ (ComputeReturned /\ pc = "raised") =>
          /\ The(error).from = "execute"
          /\ MeetsThreshold

\* a requested execution suppressed by a fraction below the threshold, and
\* the pair still returned
C7_Witness ==
    /\ pc = "returned"
    /\ args.execute
    /\ The(fraction) < args.completeness_threshold
    /\ Count("execute") = 0
    /\ result = Some(<<The(traj), The(fraction)>>)

(* C8: when a collaborator call raises, that same error reaches the        *)
(* caller, the failed call is the last collaborator call made, and no      *)
(* collaborator operation is invoked more than once.                       *)
C8_CollaboratorErrorsPropagate ==
    /\ \A op \in CollaboratorOps : Count(op) <= 1
    /\ \A i \in 1 .. Len(calls) :
          calls[i].raised # None =>
             /\ i = Len(calls)
             /\ pc = "raised"
             /\ error = Some([kind |-> The(calls[i].raised),
                              from |-> calls[i].call.op])
             /\ result = None

\* compute_cartesian_path failed although execution was requested
C8_Witness ==
    /\ pc = "raised"
    /\ args.execute
    /\ The(error).from = "compute_cartesian_path"
    /\ Count("execute") = 0

(* C9: the collaborator calls are made in the fixed order                  *)
(* set_max_velocity_scaling_factor(velocity_scale), get_current_pose,      *)
(* compute_cartesian_path(waypoints built from the pose just read,         *)
(* eef_step, jump_threshold, avoid_collisions=True), then execute if gated *)
(* in; a run that returns has made the first three exactly once.           *)
C9_CallOrder ==
    /\ IsPrefix(Ops(calls), CallOrder)
    /\ Len(calls) >= 1 =>
          calls[1].call = [op |-> "set_max_velocity_scaling_factor",
                           factor |-> args.velocity_scale]
    /\ Len(calls) >= 3 =>
          calls[3].call =
             [op |-> "compute_cartesian_path",
              waypoints |-> build_waypoints(The(calls[2].value), args.radius,
                                            args.n_points, args.plane).waypoints,
              eef_step |-> args.eef_step,
              jump_threshold |-> args.jump_threshold,
              avoid_collisions |-> TRUE]
    /\ pc = "returned" => Len(calls) >= 3
    /\ pc \in {"compute", "gate", "execute", "return"} => Len(calls) >= 2

\* a run that made all four calls and returned
C9_Witness ==
    /\ pc = "returned"
    /\ Ops(calls) = CallOrder

----------------------------------------------------------------------------
(* Properties of the waypoint generator, read off the planner's state      *)
(* right after line 82                                                     *)

ValidGeneratorInput ==
    /\ args.plane \in EnumeratedPlanes
    /\ args.n_points >= 1
    /\ args.radius > 0

Coord(pose, c) ==
    CASE c = "x" -> pose.position.x
      [] c = "y" -> pose.position.y
      [] c = "z" -> pose.position.z

\* the axis an enumerated plane does not name
ThirdAxis(plane) == CHOOSE c \in {"x", "y", "z"} : c # plane[1] /\ c # plane[2]

First(wps) == wps[1]
Last(wps) == wps[Len(wps)]

(* C2: with n_points = 0 the error that reaches the caller is an           *)
(* invalid-argument error raised by the Waypoint Generator, and no         *)
(* collaborator call has been made when it does.                           *)
C2_ZeroPointsRejectedBeforeAnyCall ==
    (args.n_points = 0 /\ pc = "raised" /\ GeneratorRaised) =>
        /\ The(error).kind = "ValueError"
        /\ calls = << >>

(* C3: for every plane other than "xy", "yz", "xz", _build_waypoints       *)
(* raises and returns no waypoint sequence.                                *)
C3_UnenumeratedPlaneRejected ==
    (GeneratorRan /\ args.plane \notin EnumeratedPlanes) =>
        /\ GeneratorRaised
        /\ waypoints = None

(* C4: for radius > 0, an enumerated plane and n_points >= 1,              *)
(* _build_waypoints returns a sequence of exactly n_points + 1 poses.      *)
C4_WaypointCount ==
    (GeneratorRan /\ ValidGeneratorInput) =>
        /\ ~GeneratorRaised
        /\ waypoints # None
        /\ Len(The(waypoints)) = args.n_points + 1

\* a circle of at least three samples has been generated
C4_Witness ==
    /\ pc = "compute"
    /\ ValidGeneratorInput
    /\ args.n_points >= 3
    /\ Len(The(waypoints)) = args.n_points + 1

(* C5 as claimed: for valid input the first and the last waypoint have     *)
(* identical position coordinates, and that position is the start pose's.  *)
C5_ClosedExactly ==
    (GeneratorRan /\ ValidGeneratorInput /\ waypoints # None) =>
        /\ First(The(waypoints)).position = The(start_pose).position
        /\ Last(The(waypoints)).position = The(start_pose).position

\* |u - v| is within 32 * 2^-Precision * (|v| + radius): a few units of
\* floating-point rounding relative to the magnitudes involved
WithinRounding(u, v) ==
    Abs(u - v) * (2 ^ Precision) <= 32 * (Abs(v) + args.radius)

(* C5 as amended: for valid input the first and the last waypoint coincide *)
(* with the start pose's position up to floating-point rounding on the two *)
(* plane axes, and exactly on the third axis.                              *)
C5_ClosedWithinRounding ==
    (GeneratorRan /\ ValidGeneratorInput /\ waypoints # None) =>
        \A w \in {First(The(waypoints)), Last(The(waypoints))} :
            /\ \A c \in {"x", "y", "z"} :
                  WithinRounding(Coord(w, c), Coord(The(start_pose), c))
            /\ Coord(w, ThirdAxis(args.plane)) =
                  Coord(The(start_pose), ThirdAxis(args.plane))

\* a generated circle whose last waypoint is not the first one bit for bit
C5_Witness ==
    /\ pc = "compute"
    /\ ValidGeneratorInput
    /\ First(The(waypoints)).position = The(start_pose).position
    /\ Last(The(waypoints)).position # First(The(waypoints)).position

(* C6: for an enumerated plane, every waypoint keeps the start pose's      *)
(* coordinate on the axis the plane does not name (z for "xy", x for "yz", *)
(* y for "xz") and the start pose's orientation.                           *)
C6_ThirdAxisAndOrientationKept ==
    (GeneratorRan /\ args.plane \in EnumeratedPlanes /\ waypoints # None) =>
        \A i \in 1 .. Len(The(waypoints)) :
            LET w == The(waypoints)[i] IN
            /\ w.orientation = The(start_pose).orientation
            /\ Coord(w, ThirdAxis(args.plane)) =
                  Coord(The(start_pose), ThirdAxis(args.plane))

\* a "yz" circle with a waypoint that left the start pose on both y and z
\* while x, which is not 0, stayed
C6_Witness ==
    /\ pc = "compute"
    /\ args.plane = <<"y", "z">>
    /\ The(start_pose).position.x # 0
    /\ \E i \in 1 .. Len(The(waypoints)) :
          LET w == The(waypoints)[i] IN
          /\ w.position.y # The(start_pose).position.y
          /\ w.position.z # The(start_pose).position.z
          /\ w.position.x = The(start_pose).position.x

(* C10: with n_points < 0 and an enumerated plane the generator raises     *)
(* nothing and returns the empty sequence, compute_cartesian_path is       *)
(* called with that empty sequence, and the usual gate decides execution;  *)
(* with an enumerated plane the generator raises only for n_points = 0.    *)
C10_NegativePointsPlanEmptyPath ==
    /\ (args.n_points < 0 /\ args.plane \in EnumeratedPlanes) =>
          /\ ~GeneratorRaised
          /\ GeneratorRan => waypoints = Some(<< >>)
          /\ (GeneratorRan /\ pc # "compute") => Count("compute_cartesian_path") = 1
          /\ \A c \in CallsOf("compute_cartesian_path") : c.waypoints = << >>
          /\ (Finished /\ ComputeReturned) =>
                (Count("execute") = 1 <=> MeetsThreshold)
    /\ (args.plane \in EnumeratedPlanes /\ GeneratorRaised) => args.n_points = 0

\* a negative point count planned, gated in and executed
C10_Witness ==
    /\ args.n_points < 0
    /\ args.plane \in EnumeratedPlanes
    /\ pc = "returned"
    /\ Count("execute") = 1
    /\ \E c \in CallsOf("compute_cartesian_path") : c.waypoints = << >>

=============================================================================
